---- MODULE Spec2Model ----
(***************************************************************************)
(* A model of AcfToSdfConverter (src/Converter.py): the key-value parser,  *)
(* the suffix lookup, the mass resolution, and the aggregation of the      *)
(* _part/<idx>/_geo_xyz point cloud into collision boxes.                  *)
(*                                                                         *)
(* Text is modelled character by character: a line, a key and a token are  *)
(* strings, and strip/split/startswith/endswith/isdigit/int/float are the  *)
(* operators below.  Python floats are modelled as exact decimals held as  *)
(* integers scaled by Scale (one unit = 1/2000 of the source unit), which  *)
(* is exact for tokens with at most three decimals; metres are held in     *)
(* units of 1/(Scale*LenDen) and kilograms in units of 1/(Scale*MassDen).  *)
(***************************************************************************)
EXTENDS Integers, Sequences, FiniteSets, TLC

VARIABLES content, pc, ln, data, mass_lb, inertial, diag,
          parts_bounds, count_points, k, e, xml_output, result, looked

vars == <<content, pc, ln, data, mass_lb, inertial, diag,
          parts_bounds, count_points, k, e, xml_output, result, looked>>

----------------------------------------------------------------------------
(* Bounds of the model *)

\* most lines of StoreLines in an input file of SpecStore
MaxLines == 3

\* most lines of ExtraLines after the geometry block in an input file of Spec
MaxExtra == 3

----------------------------------------------------------------------------
(* Numbers *)

\* fixed-point scale of a parsed float: 1.0 is Scale
Scale == 2 * 1000

\* FT_TO_M = 0.3048 = LenNum / LenDen
LenNum == 3048
LenDen == 10000

\* LB_TO_KG = 0.453592 = MassNum / MassDen
MassNum == 56699
MassDen == 125000

Abs(n) == IF n < 0 THEN -n ELSE n

Max2(a, b) == IF a >= b THEN a ELSE b

RECURSIVE SeqMin(_)
SeqMin(s) ==
    IF Len(s) = 1 THEN s[1]
    ELSE LET m == SeqMin(Tail(s)) IN IF s[1] <= m THEN s[1] ELSE m

RECURSIVE SeqMax(_)
SeqMax(s) ==
    IF Len(s) = 1 THEN s[1]
    ELSE LET m == SeqMax(Tail(s)) IN IF s[1] >= m THEN s[1] ELSE m

----------------------------------------------------------------------------
(* Strings, as Python's str methods compute them *)

Ch(s, i) == SubSeq(s, i, i)

\* the whitespace of the model's inputs (Python's also has \r, \f, \v)
Whitespace == {" ", "\t"}

Digits == <<"0", "1", "2", "3", "4", "5", "6", "7", "8", "9">>

IsDigitCh(c) == \E d \in 1..10 : Digits[d] = c

DigitVal(c) == (CHOOSE d \in 1..10 : Digits[d] = c) - 1

\* str.strip()
RECURSIVE LStrip(_)
LStrip(s) ==
    IF Len(s) > 0 /\ Ch(s, 1) \in Whitespace
    THEN LStrip(SubSeq(s, 2, Len(s))) ELSE s

RECURSIVE RStrip(_)
RStrip(s) ==
    IF Len(s) > 0 /\ Ch(s, Len(s)) \in Whitespace
    THEN RStrip(SubSeq(s, 1, Len(s) - 1)) ELSE s

strip(s) == RStrip(LStrip(s))

\* str.startswith / str.endswith / the `in` operator on strings
startswith(s, p) == Len(p) <= Len(s) /\ SubSeq(s, 1, Len(p)) = p

endswith(s, p) ==
    Len(p) <= Len(s) /\ SubSeq(s, Len(s) - Len(p) + 1, Len(s)) = p

contains(s, p) ==
    \E i \in 1..(Len(s) - Len(p) + 1) : SubSeq(s, i, i + Len(p) - 1) = p

\* str.split(): the maximal runs of non-whitespace characters
RECURSIVE SplitWs(_, _, _)
SplitWs(s, cur, acc) ==
    IF Len(s) = 0
    THEN IF cur = "" THEN acc ELSE Append(acc, cur)
    ELSE IF Ch(s, 1) \in Whitespace
         THEN SplitWs(SubSeq(s, 2, Len(s)), "",
                      IF cur = "" THEN acc ELSE Append(acc, cur))
         ELSE SplitWs(SubSeq(s, 2, Len(s)), cur \o Ch(s, 1), acc)

split(s) == SplitWs(s, "", <<>>)

\* str.split(sep) for a one-character sep: empty pieces are kept
RECURSIVE SplitSep(_, _, _, _)
SplitSep(s, sep, cur, acc) ==
    IF Len(s) = 0 THEN Append(acc, cur)
    ELSE IF Ch(s, 1) = sep
         THEN SplitSep(SubSeq(s, 2, Len(s)), sep, "", Append(acc, cur))
         ELSE SplitSep(SubSeq(s, 2, Len(s)), sep, cur \o Ch(s, 1), acc)

split_on(s, sep) == SplitSep(s, sep, "", <<>>)

\* str.isdigit() on decimal digits
isdigit(s) == Len(s) > 0 /\ \A i \in 1..Len(s) : IsDigitCh(Ch(s, i))

\* int(s) for a digit string
RECURSIVE int(_)
int(s) ==
    IF Len(s) = 0 THEN 0
    ELSE 10 * int(SubSeq(s, 1, Len(s) - 1)) + DigitVal(Ch(s, Len(s)))

\* f"{n}" for a non-negative int
RECURSIVE str(_)
str(n) == IF n < 10 THEN Digits[n + 1] ELSE str(n \div 10) \o Digits[(n % 10) + 1]

----------------------------------------------------------------------------
(* Values of the store: a float, a string token, or a list of those *)

Num(n) == [t |-> "num", n |-> n, s |-> "", l |-> <<>>]

Str(s) == [t |-> "str", n |-> 0, s |-> s, l |-> <<>>]

List(l) == [t |-> "list", n |-> 0, s |-> "", l |-> l]

\* the signless part of a decimal literal: digits with at most one point
\* and at least one digit (exponents, inf, nan and underscores are not
\* modelled: no input of the model uses them)
IsDecimal(s) ==
    LET p == split_on(s, ".") IN
    /\ Len(p) \in {1, 2}
    /\ \A i \in 1..Len(p) : \A j \in 1..Len(p[i]) : IsDigitCh(Ch(p[i], j))
    /\ \E i \in 1..Len(p) : Len(p[i]) > 0

Unsigned(s) ==
    IF Len(s) > 0 /\ Ch(s, 1) \in {"+", "-"} THEN SubSeq(s, 2, Len(s)) ELSE s

\* whether float(s) returns (TRUE) or raises ValueError (FALSE)
FloatOk(s) == IsDecimal(Unsigned(s))

RECURSIVE Pow10(_)
Pow10(n) == IF n = 0 THEN 1 ELSE 10 * Pow10(n - 1)

\* float(s), scaled by Scale
FloatVal(s) ==
    LET p == split_on(Unsigned(s), ".")
        whole == int(p[1])
        frac == IF Len(p) = 2 THEN p[2] ELSE ""
        mag == whole * Scale + (int(frac) * Scale) \div Pow10(Len(frac))
    IN IF Ch(s, 1) = "-" THEN -mag ELSE mag

\* Converter.py:38-42: try float(v), except ValueError keep the string
ParseToken(v) == IF FloatOk(v) THEN Num(FloatVal(v)) ELSE Str(v)

----------------------------------------------------------------------------
(* The store: a dict, held as its items in insertion order *)

HasKey(d, key) == \E i \in 1..Len(d) : d[i].key = key

KeyIndex(d, key) == CHOOSE i \in 1..Len(d) : d[i].key = key

\* data[key] = val: a known key keeps its place, a new key goes last
DictSet(d, key, val) ==
    IF HasKey(d, key)
    THEN [d EXCEPT ![KeyIndex(d, key)] = [key |-> key, val |-> val]]
    ELSE Append(d, [key |-> key, val |-> val])

\* parse_line without the unwrapping of a single value (Converter.py:45)
parse_line_always_list(d, raw) ==
    LET line == strip(raw)
        parts == split(line)
    IN  IF line = "" \/ ~startswith(line, "P ") THEN d
        ELSE IF Len(parts) >= 3
             THEN LET values == SubSeq(parts, 3, Len(parts))
                  IN DictSet(d, parts[2],
                             List([j \in 1..Len(values) |-> ParseToken(values[j])]))
             ELSE d

\* Converter.py:26-45: what one line of the input does to data
parse_line(d, raw) ==
    LET line == strip(raw)
        parts == split(line)
    IN  IF line = "" \/ ~startswith(line, "P ") THEN d
        ELSE IF Len(parts) >= 3
             THEN LET key == parts[2]
                      values == SubSeq(parts, 3, Len(parts))
                      parsed_values ==
                          [j \in 1..Len(values) |-> ParseToken(values[j])]
                  IN DictSet(d, key,
                             IF Len(parsed_values) = 1 THEN parsed_values[1]
                             ELSE List(parsed_values))
             ELSE d

\* Converter.py:64-66: the first item, in order, whose key ends with the suffix
RECURSIVE SuffixScan(_, _, _, _)
SuffixScan(d, i, key_suffix, default) ==
    IF i > Len(d) THEN default
    ELSE IF endswith(d[i].key, key_suffix) THEN d[i].val
         ELSE SuffixScan(d, i + 1, key_suffix, default)

\* get_value without the exact-key test of Converter.py:61-62
get_value_suffix_only(d, key_suffix, default) ==
    SuffixScan(d, 1, key_suffix, default)

\* Converter.py:59-67
get_value(d, key_suffix, default) ==
    IF HasKey(d, key_suffix) THEN d[KeyIndex(d, key_suffix)].val
    ELSE SuffixScan(d, 1, key_suffix, default)

----------------------------------------------------------------------------
(* Units, formatting, and the coordinate transform *)

\* one metre and one kilogram, in the units the model holds them in
Metre == Scale * LenDen

Kilogram == Scale * MassDen

\* v rounded to the nearest multiple of step, counted in steps
RoundTo(v, step) ==
    LET a == Abs(v)
        q == a \div step
        r == a % step
        m == IF 2 * r > step \/ (2 * r = step /\ q % 2 = 1) THEN q + 1 ELSE q
    IN IF v < 0 THEN -m ELSE m

\* f"{v:.3f}" of a length in metres: the value in thousandths (the sign
\* Python prints on a negative zero is not modelled)
Fmt3(v) == RoundTo(v, Metre \div 1000)

\* f"{v:.4f}" of a mass in kilograms: the value in ten-thousandths
Fmt4(v) == RoundTo(v, Kilogram \div 10000)

\* Converter.py:48-57, from scaled feet to metres
convert_coords(xp_x_lat, xp_y_vert, xp_z_long) ==
    << -(xp_z_long * LenNum), -(xp_x_lat * LenNum), xp_y_vert * LenNum >>

\* 0.01, the threshold of Converter.py:357
Epsilon == Scale \div 100

\* 0.05, the floor of Converter.py:385-387, in metres
MinDim == Metre \div 20

\* 1.0, the placeholder mass of Converter.py:72, in kilograms
FallbackMassKg == Kilogram

----------------------------------------------------------------------------
(* Python's comparisons and float() on a value of the store *)

\* v == 0
PyEqZero(v) == v.t = "num" /\ v.n = 0

\* the exception float(v) raises on a value of the store, "" when it returns:
\* a stored string is one float() refused at parse time
FloatRaises(v) ==
    IF v.t = "num" THEN "" ELSE IF v.t = "str" THEN "ValueError" ELSE "TypeError"

\* Converter.py:17-20
resolve_mass(d) ==
    LET primary == get_value(d, "acf/_m_empty", Num(0)) IN
    IF PyEqZero(primary) THEN get_value(d, "_cgpt/0/_w_now", Num(0)) ELSE primary

NoXml == [mass |-> 0, ixx |-> 0, iyy |-> 0, izz |-> 0]

\* Converter.py:69-93: the outcome of the call; `mass_kg` is the local
\* variable when the call ends, `xml` what the returned text holds
generate_inertial_xml(m) ==
    IF m.t # "num"
    THEN [st |-> "raised", exc |-> "TypeError", mass_kg |-> FallbackMassKg,
          xml |-> NoXml, msg |-> "none"]
    ELSE IF m.n > 0
         THEN [st |-> "none", exc |-> "", mass_kg |-> (m.n * MassNum),
               xml |-> NoXml, msg |-> "mass_info"]
         ELSE LET mass_kg == FallbackMassKg
                  ixx == mass_kg \div 20
              IN [st |-> "xml", exc |-> "", mass_kg |-> mass_kg,
                  xml |-> [mass |-> Fmt4(mass_kg), ixx |-> Fmt4(ixx),
                           iyy |-> Fmt4(ixx), izz |-> Fmt4(ixx)],
                  msg |-> "mass_warning"]

----------------------------------------------------------------------------
(* generate_fuselage_collisions: the scan of the store *)

\* parts_bounds: a dict from part index to its three buckets, held as its
\* items in insertion order; bucket axis is b[axis + 1]
HasPart(pb, idx) == \E i \in 1..Len(pb) : pb[i].idx = idx

PartAt(pb, idx) == CHOOSE i \in 1..Len(pb) : pb[i].idx = idx

\* Converter.py:317-318
WithPart(pb, idx) ==
    IF HasPart(pb, idx) THEN pb
    ELSE Append(pb, [idx |-> idx, b |-> << <<>>, <<>>, <<>> >>])

\* list.index: the first position of x
IndexOf(seq, x) ==
    CHOOSE i \in 1..Len(seq) : seq[i] = x /\ \A j \in 1..(i - 1) : seq[j] # x

\* Converter.py:311-314: the value float() is applied to
ScalarOf(val) == IF val.t = "list" THEN val.l[1] ELSE val

\* Converter.py:284-292: the part index of a key, -1 when the key is passed over
PartIndexOf(key) ==
    LET segments == split_on(key, "/") IN
    IF \E i \in 1..Len(segments) : segments[i] = "_part"
    THEN LET idx_tag == IndexOf(segments, "_part") IN
         IF Len(segments) > idx_tag /\ isdigit(segments[idx_tag + 1])
         THEN int(segments[idx_tag + 1])
         ELSE -1
    ELSE -1

\* AxisOf reading the second component of the triple instead of the third
AxisOf_second_component(key) ==
    LET segments == split_on(key, "/")
        grid_coords == split_on(segments[Len(segments)], ",")
    IN IF Len(grid_coords) # 3 THEN -1
       ELSE IF ~isdigit(grid_coords[2]) THEN -1
            ELSE int(grid_coords[2])

\* Converter.py:296-307: the axis of a key, -1 when the key is passed over
AxisOf(key) ==
    LET segments == split_on(key, "/")
        grid_coords == split_on(segments[Len(segments)], ",")
    IN IF Len(grid_coords) # 3 THEN -1
       ELSE IF ~isdigit(grid_coords[3]) THEN -1
            ELSE int(grid_coords[3])

\* Converter.py:275-326: one iteration of the scan, on item (key, val);
\* `dbg` says whether the except clause ran
scan_key(pb, cnt, key, val) ==
    LET same == [pb |-> pb, cnt |-> cnt, dbg |-> FALSE] IN
    IF ~(contains(key, "_geo_xyz") /\ contains(key, "_part/")) THEN same
    ELSE IF PartIndexOf(key) = -1 THEN same
    ELSE IF AxisOf(key) = -1 THEN same
    ELSE IF FloatRaises(ScalarOf(val)) # ""
         THEN [pb |-> pb, cnt |-> cnt, dbg |-> TRUE]
    ELSE LET part_idx == PartIndexOf(key)
             axis == AxisOf(key)
             val_float == ScalarOf(val).n
             pb1 == WithPart(pb, part_idx)
             at == PartAt(pb1, part_idx)
         IN IF axis \notin {0, 1, 2}
            THEN [pb |-> pb1, cnt |-> cnt, dbg |-> TRUE]
            ELSE [pb |-> [pb1 EXCEPT ![at].b[axis + 1] = Append(@, val_float)],
                  cnt |-> cnt + 1, dbg |-> FALSE]

----------------------------------------------------------------------------
(* generate_fuselage_collisions: one part's box *)

\* Converter.py:338
MissingAxis(b) == b[1] = <<>> \/ b[2] = <<>> \/ b[3] = <<>>

size_of(bucket) == SeqMax(bucket) - SeqMin(bucket)

center_of(bucket) == (SeqMin(bucket) + SeqMax(bucket)) \div 2

\* Converter.py:357
Degenerate(b) == size_of(b[1]) < Epsilon /\ size_of(b[2]) < Epsilon

\* Dim without the floor
Dim_no_floor(size) == size * LenNum

\* Converter.py:385-387
Dim(size) == Max2(size * LenNum, MinDim)

\* Converter.py:367-369: the three offset values as stored
Offsets(d, idx) ==
    << get_value(d, "_part/" \o str(idx) \o "/_part_x", Num(0)),
       get_value(d, "_part/" \o str(idx) \o "/_part_y", Num(0)),
       get_value(d, "_part/" \o str(idx) \o "/_part_z", Num(0)) >>

\* the exception the three float() calls of Converter.py:367-369 raise
OffsetRaises(off) ==
    IF FloatRaises(off[1]) # "" THEN FloatRaises(off[1])
    ELSE IF FloatRaises(off[2]) # "" THEN FloatRaises(off[2])
    ELSE FloatRaises(off[3])

\* Converter.py:336-398: one iteration of the emission loop, on part p
emit_part(d, p) ==
    IF MissingAxis(p.b) THEN [kind |-> "skip", exc |-> "", rec |-> <<>>]
    ELSE IF Degenerate(p.b) THEN [kind |-> "skip", exc |-> "", rec |-> <<>>]
    ELSE LET off == Offsets(d, p.idx) IN
         IF OffsetRaises(off) # ""
         THEN [kind |-> "raise", exc |-> OffsetRaises(off), rec |-> <<>>]
         ELSE LET tot_long == off[3].n + center_of(p.b[1])
                  tot_lat == off[1].n + center_of(p.b[2])
                  tot_vert == off[2].n + center_of(p.b[3])
                  gz_x == -(tot_long * LenNum)
                  gz_y == -(tot_lat * LenNum)
                  gz_z == tot_vert * LenNum
                  dim_x == Dim(size_of(p.b[1]))
                  dim_y == Dim(size_of(p.b[2]))
                  dim_z == Dim(size_of(p.b[3]))
              IN [kind |-> "emit", exc |-> "",
                  rec |-> << [idx |-> p.idx,
                              pose |-> <<Fmt3(gz_x), Fmt3(gz_y), Fmt3(gz_z)>>,
                              size |-> <<Fmt3(dim_x), Fmt3(dim_y), Fmt3(dim_z)>>] >>]

----------------------------------------------------------------------------
(* Input files *)

\* the lines of `lines` at the increasing positions of `pick`
Pick(lines, pick) == [j \in 1..Len(pick) |-> lines[pick[j]]]

\* the increasing sequences of at most m positions among 1..n
RECURSIVE Picks(_, _)
Picks(n, m) ==
    IF n = 0 \/ m = 0 THEN {<<>>}
    ELSE Picks(n - 1, m) \cup {Append(p, n) : p \in Picks(n - 1, m - 1)}

\* geometry blocks: the samples of part 0 (and part 1) a file starts with
Box0 ==
    << "P _part/0/_geo_xyz/0,0,0 0.0",
       "P _part/0/_geo_xyz/1,0,0 10.0",
       "P _part/0/_geo_xyz/0,0,1 0.0",
       "P _part/0/_geo_xyz/0,1,1 2.0",
       "P _part/0/_geo_xyz/0,0,2 0.0",
       "P _part/0/_geo_xyz/1,1,2 1.0" >>

Thin0 ==
    << "P _part/0/_geo_xyz/0,0,0 0.0",
       "P _part/0/_geo_xyz/1,0,0 0.001",
       "P _part/0/_geo_xyz/0,0,1 0.0",
       "P _part/0/_geo_xyz/0,1,1 0.001",
       "P _part/0/_geo_xyz/0,0,2 0.0",
       "P _part/0/_geo_xyz/1,1,2 1.0" >>

HalfThin0 ==
    << "P _part/0/_geo_xyz/0,0,0 0.0",
       "P _part/0/_geo_xyz/1,0,0 0.001",
       "P _part/0/_geo_xyz/0,0,1 -1.0",
       "P _part/0/_geo_xyz/0,1,1 2.0",
       "P _part/0/_geo_xyz/0,0,2 0.5" >>

Flat0 ==
    << "P _part/0/_geo_xyz/0,0,0 -3.0",
       "P _part/0/_geo_xyz/1,0,0 3.0",
       "P _part/0/_geo_xyz/0,0,1 1.0",
       "P _part/0/_geo_xyz/0,0,2 2.0" >>

TwoAxes0 ==
    << "P _part/0/_geo_xyz/0,0,0 0.0",
       "P _part/0/_geo_xyz/1,2,0 10.0",
       "P _part/0/_geo_xyz/0,0,1 1.0",
       "P _part/0/_geo_xyz/0,1,1 3.0" >>

Box1 ==
    << "P _part/1/_geo_xyz/0,0,0 -4.0",
       "P _part/01/_geo_xyz/1,0,0 4.0",
       "P fus/_part/1/_geo_xyz/0,0,1 1.0",
       "P _part/1/_geo_xyz/0,0,2 3.0" >>

GeometryBlocks ==
    { <<>>, Box0, Thin0, HalfThin0, Flat0, TwoAxes0, Flat0 \o Box1, Box1 \o Flat0 }

\* lines that may follow the geometry block
ExtraLines ==
    << "P _part/0/_part_x 1.5",
       "P _part/0/_part_y -2.0",
       "P _part/0/_part_z 0.5",
       "P _part/1/_part_x abc",
       "P _part/1/_part_z 1.0 2.0",
       "P _part/1/_geo_xyz/2,0,1 5.0",
       "P _part/2/_geo_xyz/0,0,3 5.0",
       "P _part/0/_geo_xyz/0,3,2 n/a",
       "P _part/0/_geo_xyz/4,4 7.0",
       "P _part/x/_geo_xyz/0,0,0 7.0",
       "P _part/0/_geo_xyz/0,0,z 7.0",
       "P acf/_m_empty heavy" >>

\* the lines of the files of SpecStore
StoreLines ==
    << "P a/b/c 5",
       "P b/c 7",
       "P x/b/c 8",
       "P a/b/c 9",
       "P k 1.0 2.0 3.0",
       "P k 1.0",
       "P bad/key not_a_number",
       "P\tt/c 4",
       "Pglued/c 1 2",
       "P lonely",
       "  P  pad/c   6 x ",
       "# P c 3",
       "",
       "P acf/_m_empty 2.5",
       "P acf/_m_empty 0.0",
       "P acf/_m_empty -1.0",
       "P _cgpt/0/_w_now 7.0",
       "P _part/0/_geo_xyz/0,0,0 1.0" >>

\* what a caller asks get_value for
Queries == {"a/b/c", "b/c", "c", "z", "k"}

Defaults == {Num(0), Num(9 * Scale)}

----------------------------------------------------------------------------
(* The run: AcfToSdfConverter(content), then the two generators in the     *)
(* order the script calls them, then a lookup by the caller.  Each         *)
(* generator is a call of its own on the object: the second one runs       *)
(* whether the first returned or raised, and what each call did is kept in *)
(* `inertial` and `result`.                                                *)

NoLookup == [st |-> "no", q |-> "", d |-> Num(0), r |-> Num(0)]

NotCalled ==
    [st |-> "not_called", exc |-> "", mass_kg |-> 0, xml |-> NoXml, msg |-> "none"]

Pending == [st |-> "pending", exc |-> "", parts |-> <<>>]

InitWith(c) ==
    /\ content = c
    /\ pc = "parse"
    /\ ln = 1
    /\ data = <<>>
    /\ mass_lb = Num(0)
    /\ inertial = NotCalled
    /\ diag = {}
    /\ parts_bounds = <<>>
    /\ count_points = 0
    /\ k = 1
    /\ e = 1
    /\ xml_output = <<>>
    /\ result = Pending
    /\ looked = NoLookup

Init ==
    \E block \in GeometryBlocks :
        \E pick \in Picks(Len(ExtraLines), MaxExtra) :
            InitWith(block \o Pick(ExtraLines, pick))

InitStore ==
    \E pick \in Picks(Len(StoreLines), MaxLines) :
        InitWith(Pick(StoreLines, pick))

\* Converter.py:25-45: one iteration of the loop of _parse_acf
ParseLine ==
    /\ pc = "parse"
    /\ ln <= Len(content)
    /\ data' = parse_line(data, content[ln])
    /\ ln' = ln + 1
    /\ UNCHANGED <<content, pc, mass_lb, inertial, diag, parts_bounds,
                   count_points, k, e, xml_output, result, looked>>

\* Converter.py:17-20: the end of __init__
Constructed ==
    /\ pc = "parse"
    /\ ln > Len(content)
    /\ mass_lb' = resolve_mass(data)
    /\ pc' = "inertial"
    /\ UNCHANGED <<content, ln, data, inertial, diag, parts_bounds,
                   count_points, k, e, xml_output, result, looked>>

\* Converter.py:69-93 (called at Converter.py:425)
GenerateInertial ==
    /\ pc = "inertial"
    /\ inertial' = generate_inertial_xml(mass_lb)
    /\ diag' = diag \cup ({inertial'.msg} \ {"none"})
    /\ pc' = "scan"
    /\ UNCHANGED <<content, ln, data, mass_lb, parts_bounds,
                   count_points, k, e, xml_output, result, looked>>

\* Converter.py:275-326: one iteration of the scan
ScanKey ==
    /\ pc = "scan"
    /\ k <= Len(data)
    /\ LET r == scan_key(parts_bounds, count_points, data[k].key, data[k].val)
       IN /\ parts_bounds' = r.pb
          /\ count_points' = r.cnt
          /\ diag' = IF r.dbg THEN diag \cup {"debug_error"} ELSE diag
    /\ k' = k + 1
    /\ UNCHANGED <<content, pc, ln, data, mass_lb, inertial, e, xml_output,
                   result, looked>>

\* Converter.py:328-334: after the scan
ScanDone ==
    /\ pc = "scan"
    /\ k > Len(data)
    /\ IF parts_bounds = <<>>
       THEN /\ diag' = diag \cup {"no_points_warning"}
            /\ result' = [st |-> "empty", exc |-> "", parts |-> <<>>]
            /\ pc' = "done"
       ELSE /\ diag' = diag \cup {"points_info"}
            /\ result' = result
            /\ pc' = "emit"
    /\ UNCHANGED <<content, ln, data, mass_lb, inertial, parts_bounds,
                   count_points, k, e, xml_output, looked>>

\* Converter.py:336-398: one iteration of the emission loop
EmitPart ==
    /\ pc = "emit"
    /\ e <= Len(parts_bounds)
    /\ LET r == emit_part(data, parts_bounds[e])
       IN IF r.kind = "raise"
          THEN /\ result' = [st |-> "raised", exc |-> r.exc, parts |-> <<>>]
               /\ pc' = "done"
               /\ UNCHANGED <<e, xml_output>>
          ELSE /\ xml_output' = xml_output \o r.rec
               /\ e' = e + 1
               /\ UNCHANGED <<pc, result>>
    /\ UNCHANGED <<content, ln, data, mass_lb, inertial, diag, parts_bounds,
                   count_points, k, looked>>

\* Converter.py:400
Return ==
    /\ pc = "emit"
    /\ e > Len(parts_bounds)
    /\ result' = [st |-> "xml", exc |-> "", parts |-> xml_output]
    /\ pc' = "done"
    /\ UNCHANGED <<content, ln, data, mass_lb, inertial, diag, parts_bounds,
                   count_points, k, e, xml_output, looked>>

\* Converter.py:59-67: a caller's get_value(q, d) on the finished store
Lookup ==
    /\ pc = "done"
    /\ looked.st = "no"
    /\ \E q \in Queries : \E d \in Defaults :
          looked' = [st |-> "yes", q |-> q, d |-> d, r |-> get_value(data, q, d)]
    /\ UNCHANGED <<content, pc, ln, data, mass_lb, inertial, diag,
                   parts_bounds, count_points, k, e, xml_output, result>>

Next ==
    \/ ParseLine
    \/ Constructed
    \/ GenerateInertial
    \/ ScanKey
    \/ ScanDone
    \/ EmitPart
    \/ Return
    \/ Lookup

\* files that open with a geometry block
Spec == Init /\ [][Next]_vars

\* files of key-value lines
SpecStore == InitStore /\ [][Next]_vars

----------------------------------------------------------------------------
(* What the input files say, read off the lines by hand: the oracle the    *)
(* properties below compare the run against.  Values are in thousandths.   *)

Sample(line, part, axis, v) == [line |-> line, part |-> part, axis |-> axis, v |-> v]

\* the lines that are one numeric sample of a part on an axis in {0, 1, 2}
Samples ==
    { Sample("P _part/0/_geo_xyz/0,0,0 0.0", 0, 0, 0),
      Sample("P _part/0/_geo_xyz/1,0,0 10.0", 0, 0, 10000),
      Sample("P _part/0/_geo_xyz/1,2,0 10.0", 0, 0, 10000),
      Sample("P _part/0/_geo_xyz/1,0,0 0.001", 0, 0, 1),
      Sample("P _part/0/_geo_xyz/0,0,0 -3.0", 0, 0, -3000),
      Sample("P _part/0/_geo_xyz/1,0,0 3.0", 0, 0, 3000),
      Sample("P _part/0/_geo_xyz/0,0,0 1.0", 0, 0, 1000),
      Sample("P _part/0/_geo_xyz/0,0,1 0.0", 0, 1, 0),
      Sample("P _part/0/_geo_xyz/0,1,1 2.0", 0, 1, 2000),
      Sample("P _part/0/_geo_xyz/0,1,1 3.0", 0, 1, 3000),
      Sample("P _part/0/_geo_xyz/0,1,1 0.001", 0, 1, 1),
      Sample("P _part/0/_geo_xyz/0,0,1 -1.0", 0, 1, -1000),
      Sample("P _part/0/_geo_xyz/0,0,1 1.0", 0, 1, 1000),
      Sample("P _part/0/_geo_xyz/0,0,2 0.0", 0, 2, 0),
      Sample("P _part/0/_geo_xyz/1,1,2 1.0", 0, 2, 1000),
      Sample("P _part/0/_geo_xyz/0,0,2 0.5", 0, 2, 500),
      Sample("P _part/0/_geo_xyz/0,0,2 2.0", 0, 2, 2000),
      Sample("P _part/1/_geo_xyz/0,0,0 -4.0", 1, 0, -4000),
      Sample("P _part/01/_geo_xyz/1,0,0 4.0", 1, 0, 4000),
      Sample("P fus/_part/1/_geo_xyz/0,0,1 1.0", 1, 1, 1000),
      Sample("P _part/1/_geo_xyz/2,0,1 5.0", 1, 1, 5000),
      Sample("P _part/1/_geo_xyz/0,0,2 3.0", 1, 2, 3000) }

\* the lines that set a numeric offset of a part: c is 1, 2, 3 for
\* _part_x, _part_y, _part_z
OffsetLines ==
    { Sample("P _part/0/_part_x 1.5", 0, 1, 1500),
      Sample("P _part/0/_part_y -2.0", 0, 2, -2000),
      Sample("P _part/0/_part_z 0.5", 0, 3, 500) }

\* the lines that set an offset of a part to something that is no number
BadOffsetLines ==
    { Sample("P _part/1/_part_x abc", 1, 1, 0),
      Sample("P _part/1/_part_z 1.0 2.0", 1, 3, 0) }

InFile(line) == \E j \in 1..Len(content) : content[j] = line

\* the sample values the file gives part `part` on axis `axis`
SamplesIn(part, axis) ==
    { s.v : s \in { t \in Samples : t.part = part /\ t.axis = axis /\ InFile(t.line) } }

SetMin(S) == CHOOSE x \in S : \A y \in S : x <= y

SetMax(S) == CHOOSE x \in S : \A y \in S : x >= y

Extent(part, axis) == SetMax(SamplesIn(part, axis)) - SetMin(SamplesIn(part, axis))

\* twice the centre of the samples
Centre2(part, axis) == SetMin(SamplesIn(part, axis)) + SetMax(SamplesIn(part, axis))

\* the offset the file gives the part, 0 when it gives none
OffsetIn(part, c) ==
    LET S == { t \in OffsetLines : t.part = part /\ t.axis = c /\ InFile(t.line) }
    IN IF S = {} THEN 0 ELSE (CHOOSE t \in S : TRUE).v

SampledParts == { s.part : s \in { t \in Samples : InFile(t.line) } }

FullParts == { q \in SampledParts : \A axis \in 0..2 : SamplesIn(q, axis) # {} }

\* both dominant extents under 0.01
Tiny(q) == Extent(q, 0) < 10 /\ Extent(q, 1) < 10

\* a length in thousandths of a foot, in millimetres
FeetToMm(v) == RoundTo(v * LenNum, LenDen)

\* the records of the returned text, none when the call raised or returned ""
Returned == result.st \in {"empty", "xml"}

Finished == result.st # "pending"

RecordsOf(idx) == { i \in 1..Len(result.parts) : result.parts[i].idx = idx }

----------------------------------------------------------------------------
(* Properties of generate_fuselage_collisions, under Spec *)

\* the floor 0.05 m, in millimetres
FloorMm == 50

\* the size the text gives a part: each extent in metres, floored
ExpectedSize(q) ==
    << Max2(FeetToMm(Extent(q, 0)), FloorMm),
       Max2(FeetToMm(Extent(q, 1)), FloorMm),
       Max2(FeetToMm(Extent(q, 2)), FloorMm) >>

\* offset + centre of the part along axis `axis`, offset component c
Composed(q, c, axis) == ((2 * OffsetIn(q, c)) + Centre2(q, axis)) * (Scale \div 2000)

\* convert_coords(off_x + centerLat, off_y + centerVert, off_z + centerLong)
ExpectedPose(q) ==
    LET g == convert_coords(Composed(q, 1, 1), Composed(q, 2, 2), Composed(q, 3, 0))
    IN << Fmt3(g[1]), Fmt3(g[2]), Fmt3(g[3]) >>

OwnOffsetsNumeric(q) == ~\E t \in BadOffsetLines : t.part = q /\ InFile(t.line)

HasExpectedBox(q) ==
    \E i \in RecordsOf(q) :
        /\ result.parts[i].size = ExpectedSize(q)
        /\ result.parts[i].pose = ExpectedPose(q)

\* C1: once generate_fuselage_collisions has ended, every part with a
\* sample on each of the three axes that the degeneracy filter keeps (and
\* whose own offsets are numbers) has a box in the output, of the floored
\* metric size of its extents and at convert_coords of offset + centre.
C1_EveryKeptPartHasItsBox ==
    Finished =>
        \A q \in FullParts : (~Tiny(q) /\ OwnOffsetsNumeric(q)) => HasExpectedBox(q)

\* the same, on the runs where the call returns
C1_BoxWhenReturned ==
    Returned =>
        \A q \in FullParts : (~Tiny(q) /\ OwnOffsetsNumeric(q)) => HasExpectedBox(q)

C1_BoxWithOffsetReached ==
    /\ result.st = "xml"
    /\ InFile("P _part/0/_part_x 1.5")
    /\ InFile("P _part/0/_part_y -2.0")
    /\ InFile("P _part/0/_part_z 0.5")
    /\ 0 \in FullParts /\ ~Tiny(0) /\ HasExpectedBox(0)

\* C4: neither generate_inertial_xml nor generate_fuselage_collisions
\* raises, whatever the values of the store are.
C4_NoCallRaises == inertial.st # "raised" /\ result.st # "raised"

\* C5: when the scan counted no structural point, the call returns the
\* empty string with the no-structural-data warning.
C5_NoPointsGivesEmptyResult ==
    (Finished /\ count_points = 0) =>
        (result.st = "empty" /\ "no_points_warning" \in diag)

\* C6: no record is ever written for a part that lacks a sample on one of
\* the axes 0, 1, 2, in the loop's output or in the returned text.
C6_MissingAxisNeverEmitted ==
    /\ \A i \in 1..Len(xml_output) : xml_output[i].idx \in FullParts
    /\ \A i \in 1..Len(result.parts) : result.parts[i].idx \in FullParts

C6_PartialPartBesideEmittedPart ==
    /\ result.st = "xml"
    /\ Len(result.parts) = 1
    /\ \E q \in SampledParts \ FullParts : RecordsOf(q) = {}

\* C7: once the call has ended, a part with samples on all three axes is
\* absent from the output exactly when its axis-0 and axis-1 extents are
\* both under 0.01.
C7_DiscardedIffBothTiny ==
    Finished => \A q \in FullParts : (RecordsOf(q) = {}) <=> Tiny(q)

\* the same, on the runs where the call returns
C7_FilterWhenReturned ==
    Returned => \A q \in FullParts : (RecordsOf(q) = {}) <=> Tiny(q)

C7_ThinPartDiscardedReached ==
    /\ result.st = "xml"
    /\ 0 \in FullParts /\ Tiny(0) /\ Extent(0, 2) >= 10 /\ RecordsOf(0) = {}

WellFormedOutput(recs) ==
    /\ Len(recs) <= Cardinality(SampledParts)
    /\ \A i, j \in 1..Len(recs) : recs[i].idx = recs[j].idx => i = j
    /\ \A i \in 1..Len(recs) : \A a \in 1..3 : recs[i].size[a] >= FloorMm

----------------------------------------------------------------------------
(* Properties of the store and of the mass, under SpecStore *)

\* a number written in thousandths, as a value of the store
Thousandths(v) == Num(v * (Scale \div 1000))

Entry(line, key, val) == [line |-> line, key |-> key, val |-> val]

\* the lines of StoreLines of the shape `P <key> v1 ... vn`, n >= 1, with
\* the key and the value each one sets
StoreEntries ==
    { Entry("P a/b/c 5", "a/b/c", Thousandths(5000)),
      Entry("P b/c 7", "b/c", Thousandths(7000)),
      Entry("P x/b/c 8", "x/b/c", Thousandths(8000)),
      Entry("P a/b/c 9", "a/b/c", Thousandths(9000)),
      Entry("P k 1.0 2.0 3.0", "k",
            List(<<Thousandths(1000), Thousandths(2000), Thousandths(3000)>>)),
      Entry("P k 1.0", "k", Thousandths(1000)),
      Entry("P bad/key not_a_number", "bad/key", Str("not_a_number")),
      Entry("  P  pad/c   6 x ", "pad/c", List(<<Thousandths(6000), Str("x")>>)),
      Entry("P acf/_m_empty 2.5", "acf/_m_empty", Thousandths(2500)),
      Entry("P acf/_m_empty 0.0", "acf/_m_empty", Thousandths(0)),
      Entry("P acf/_m_empty -1.0", "acf/_m_empty", Thousandths(-1000)),
      Entry("P _cgpt/0/_w_now 7.0", "_cgpt/0/_w_now", Thousandths(7000)),
      Entry("P _part/0/_geo_xyz/0,0,0 1.0", "_part/0/_geo_xyz/0,0,0",
            Thousandths(1000)) }

\* the lines whose marker is followed by a tab instead of a space
TabEntries == { Entry("P\tt/c 4", "t/c", Thousandths(4000)) }

\* the lines read so far
Read(line) == \E j \in 1..(ln - 1) : content[j] = line

\* where a line that was read stands in the file
LineNo(line) == CHOOSE j \in 1..(ln - 1) : content[j] = line

\* entry t was read and no entry read after it sets the same key
LastRead(t, entries) ==
    /\ Read(t.line)
    /\ \A u \in entries :
         (u.key = t.key /\ Read(u.line)) => LineNo(u.line) <= LineNo(t.line)

\* C2: get_value(s, d) is the value stored under s when s is a key of the
\* store; otherwise the value of the first key, in insertion order, whose
\* tail is s; otherwise d.
C2_ExactThenFirstSuffixThenDefault ==
    looked.st = "yes" =>
        LET q == looked.q
            exact == { i \in 1..Len(data) : data[i].key = q }
            tails == { i \in 1..Len(data) :
                         /\ Len(data[i].key) >= Len(q)
                         /\ SubSeq(data[i].key, Len(data[i].key) - Len(q) + 1,
                                   Len(data[i].key)) = q }
        IN IF exact # {} THEN \A i \in exact : looked.r = data[i].val
           ELSE IF tails # {} THEN looked.r = data[SetMin(tails)].val
           ELSE looked.r = looked.d

C2_ExactKeyBehindEarlierSuffixMatch ==
    /\ looked.st = "yes"
    /\ looked.q = "b/c"
    /\ Len(data) >= 2
    /\ data[1].key = "a/b/c"
    /\ data[2].key = "b/c"
    /\ looked.r = Thousandths(7000)

\* the mass the inertial text shows for v thousandths of a pound
PoundsToKg4(v) == RoundTo(v * MassNum, MassDen \div 10)

PrimaryLines ==
    { t \in StoreEntries : t.key = "acf/_m_empty" /\ LastRead(t, StoreEntries) }

LegacyLines ==
    { t \in StoreEntries : t.key = "_cgpt/0/_w_now" /\ LastRead(t, StoreEntries) }

\* the number the file gives a key, 0 when it gives none
GivenNumber(S) == IF S = {} THEN 0 ELSE (CHOOSE t \in S : TRUE).val.n \div (Scale \div 1000)

\* C3: generate_inertial_xml returns an inertial record in every case: of
\* mass primary * LB_TO_KG when the primary key holds a positive number,
\* else legacy * LB_TO_KG when the legacy key holds a positive number, else
\* of the placeholder mass 1.0, with the warning recorded.
C3_InertialRecordCarriesResolvedMass ==
    inertial.st # "not_called" =>
        /\ inertial.st = "xml"
        /\ IF GivenNumber(PrimaryLines) > 0
           THEN inertial.xml.mass = PoundsToKg4(GivenNumber(PrimaryLines))
           ELSE IF GivenNumber(LegacyLines) > 0
                THEN inertial.xml.mass = PoundsToKg4(GivenNumber(LegacyLines))
                ELSE inertial.xml.mass = 10000 /\ "mass_warning" \in diag

\* C8: the store holds, under the key of every line `P <key> v1 ... vn`
\* read so far, the value of the last such line: the number or the string
\* when n = 1, the list of the n tokens when n > 1.
C8_StoreHoldsLastLineValue ==
    \A t \in StoreEntries :
        LastRead(t, StoreEntries) =>
            /\ HasKey(data, t.key)
            /\ data[KeyIndex(data, t.key)].val = t.val

C8_ListThenScalarThenString ==
    /\ content = << "P k 1.0 2.0 3.0", "P k 1.0", "P bad/key not_a_number" >>
    /\ ln = 4
    /\ data = << [key |-> "k", val |-> Thousandths(1000)],
                 [key |-> "bad/key", val |-> Str("not_a_number")] >>

KeysRead(entries) == { t.key : t \in { u \in entries : Read(u.line) } }

KeysStored == { data[i].key : i \in 1..Len(data) }

\* C10: the keys of the store are exactly the keys of the lines read so
\* far that begin with P followed by a space or a tab and carry a key and
\* a value.
C10_MarkerThenAnyWhitespace == KeysStored = KeysRead(StoreEntries \cup TabEntries)

\* the same for the marker followed by a space
C10_MarkerThenSpace == KeysStored = KeysRead(StoreEntries)

====
